---- MODULE Spec2Model ----
(***************************************************************************)
(* CrochetScript front end: LexicalAnalyzer.lex, SintacticAnalyzer.parse,  *)
(* SemanticAnalyzer.analyze and Compiler.compile.                          *)
(*                                                                         *)
(* Source text is a sequence of one-character strings; a token's value is  *)
(* the matched slice of the source (mo.group()).  Python's None is `None`  *)
(* for a missing token and `Unset` for a missing field of a figure tuple.  *)
(***************************************************************************)
EXTENDS Integers, Sequences, FiniteSets, TLC

VARIABLES driver, code, run, first, stage, tokens_, error,
          sin_tokens, pos, current_token, rule,
          sem_tokens, i, figures, exported, returned

vars == <<driver, code, run, first, stage, tokens_, error,
          sin_tokens, pos, current_token, rule,
          sem_tokens, i, figures, exported, returned>>

sinvars == <<sin_tokens, pos, current_token, rule>>
semvars == <<sem_tokens, i, figures>>

-----------------------------------------------------------------------------
(* Bounds of the checked input sets.                                       *)

MaxPieces == 4

MaxLen == 4

MaxFigures == 2

MaxCalls == 2

-----------------------------------------------------------------------------
(* Lexemes, as character sequences.                                        *)

addCircle == <<"a","d","d","C","i","r","c","l","e">>
addSquare == <<"a","d","d","S","q","u","a","r","e">>
addTriangle == <<"a","d","d","T","r","i","a","n","g","l","e">>
addHeart == <<"a","d","d","H","e","a","r","t">>
RED == <<"R","E","D">>
PINK == <<"P","I","N","K">>
BLUE == <<"B","L","U","E">>
BLACK == <<"B","L","A","C","K">>
START == <<"S","T","A","R","T">>
END == <<"E","N","D">>
LPAREN == <<"(">>
RPAREN == <<")">>

FigureAlternatives == <<addCircle, addSquare, addTriangle, addHeart>>
ColorAlternatives == <<RED, PINK, BLUE, BLACK>>
KeywordAlternatives == <<START, END>>
SizeChars == {"1", "2", "3", "4", "5"}
SpecialChars == {"(", ")"}
SkipChars == {" ", "\t"}

Token(type, value) == [type_ |-> type, value |-> value]

None == [type_ |-> "None", value |-> <<>>]

Unset == <<"None">>

NoError == [kind |-> "none", expected |-> "", found |-> None]

RuntimeError(value) ==
    [kind |-> "RuntimeError", expected |-> "", found |-> Token("MISMATCH", value)]

SyntaxError(expected, found) ==
    [kind |-> "SyntaxError", expected |-> expected, found |-> found]

AttributeError == [kind |-> "AttributeError", expected |-> "", found |-> None]

TypeError == [kind |-> "TypeError", expected |-> "", found |-> None]

\* what export_pattern was handed, if it was called
NotExported == [called |-> FALSE, figures |-> <<>>]

\* what one call of compile produced, before any call has ended
NoOutcome == [ended |-> FALSE, error |-> NoError, exported |-> NotExported]

-----------------------------------------------------------------------------
(* LexicalAnalyzer.lex: the combined regular expression tried at one scan  *)
(* position, the alternatives in their listed order.                       *)

IsPrefixAt(w, text, p) ==
    /\ p + Len(w) - 1 <= Len(text)
    /\ SubSeq(text, p, p + Len(w) - 1) = w

\* length of the first alternative of a group that matches at p, 0 if none
FirstAlternative(alts, text, p) ==
    LET hits == {k \in 1..Len(alts) : IsPrefixAt(alts[k], text, p)}
    IN IF hits = {} THEN 0
       ELSE Len(alts[CHOOSE k \in hits : \A j \in hits : k <= j])

\* [ \t]+ is greedy: the whole run of spaces and tabs starting at p
SkipRun(text, p) ==
    LET ends == {q \in p..Len(text) : \A r \in p..q : text[r] \in SkipChars}
    IN IF ends = {} THEN 0 ELSE Cardinality(ends)

\* the run of size digits starting at p, as [1-5]+ would match it
SizeRun(text, p) ==
    LET ends == {q \in p..Len(text) : \A r \in p..q : text[r] \in SizeChars}
    IN IF ends = {} THEN 0 ELSE Cardinality(ends)

\* MatchAt with a MISMATCH pattern that also matches a newline
MatchAt_dotall(text, p) ==
    IF FirstAlternative(FigureAlternatives, text, p) > 0
      THEN [kind |-> "FIGURE", len |-> FirstAlternative(FigureAlternatives, text, p)]
    ELSE IF FirstAlternative(ColorAlternatives, text, p) > 0
      THEN [kind |-> "COLOR", len |-> FirstAlternative(ColorAlternatives, text, p)]
    ELSE IF FirstAlternative(KeywordAlternatives, text, p) > 0
      THEN [kind |-> "KEYWORDS", len |-> FirstAlternative(KeywordAlternatives, text, p)]
    ELSE IF text[p] \in SizeChars THEN [kind |-> "SIZE", len |-> 1]
    ELSE IF text[p] \in SpecialChars THEN [kind |-> "SPECIALCHAR", len |-> 1]
    ELSE IF text[p] \in SkipChars THEN [kind |-> "SKIP", len |-> SkipRun(text, p)]
    ELSE [kind |-> "MISMATCH", len |-> 1]

\* MatchAt with a SIZE pattern that takes a whole run of digits
MatchAt_digits(text, p) ==
    IF FirstAlternative(FigureAlternatives, text, p) > 0
      THEN [kind |-> "FIGURE", len |-> FirstAlternative(FigureAlternatives, text, p)]
    ELSE IF FirstAlternative(ColorAlternatives, text, p) > 0
      THEN [kind |-> "COLOR", len |-> FirstAlternative(ColorAlternatives, text, p)]
    ELSE IF FirstAlternative(KeywordAlternatives, text, p) > 0
      THEN [kind |-> "KEYWORDS", len |-> FirstAlternative(KeywordAlternatives, text, p)]
    ELSE IF text[p] \in SizeChars THEN [kind |-> "SIZE", len |-> SizeRun(text, p)]
    ELSE IF text[p] \in SpecialChars THEN [kind |-> "SPECIALCHAR", len |-> 1]
    ELSE IF text[p] \in SkipChars THEN [kind |-> "SKIP", len |-> SkipRun(text, p)]
    ELSE IF text[p] # "\n" THEN [kind |-> "MISMATCH", len |-> 1]
    ELSE [kind |-> "NOMATCH", len |-> 1]

\* the combined pattern at scan position p: the first group, in the listed
\* order, that matches there; "." matches every character but a newline
MatchAt(text, p) ==
    IF FirstAlternative(FigureAlternatives, text, p) > 0
      THEN [kind |-> "FIGURE", len |-> FirstAlternative(FigureAlternatives, text, p)]
    ELSE IF FirstAlternative(ColorAlternatives, text, p) > 0
      THEN [kind |-> "COLOR", len |-> FirstAlternative(ColorAlternatives, text, p)]
    ELSE IF FirstAlternative(KeywordAlternatives, text, p) > 0
      THEN [kind |-> "KEYWORDS", len |-> FirstAlternative(KeywordAlternatives, text, p)]
    ELSE IF text[p] \in SizeChars THEN [kind |-> "SIZE", len |-> 1]
    ELSE IF text[p] \in SpecialChars THEN [kind |-> "SPECIALCHAR", len |-> 1]
    ELSE IF text[p] \in SkipChars THEN [kind |-> "SKIP", len |-> SkipRun(text, p)]
    ELSE IF text[p] # "\n" THEN [kind |-> "MISMATCH", len |-> 1]
    ELSE [kind |-> "NOMATCH", len |-> 1]

\* LexFrom without the `continue` of SKIP: whitespace is appended as a token
RECURSIVE LexFrom_emitsSkip(_, _, _)
LexFrom_emitsSkip(text, p, toks) ==
    IF p > Len(text) THEN [ok |-> TRUE, tokens |-> toks, error |-> NoError]
    ELSE LET mo == MatchAt(text, p)
             value == SubSeq(text, p, p + mo.len - 1)
         IN IF mo.kind = "NOMATCH" THEN LexFrom_emitsSkip(text, p + 1, toks)
            ELSE IF mo.kind = "MISMATCH"
              THEN [ok |-> FALSE, tokens |-> <<>>, error |-> RuntimeError(value)]
            ELSE LexFrom_emitsSkip(text, p + mo.len, Append(toks, Token(mo.kind, value)))

\* the finditer loop from scan position p with the tokens collected so far
RECURSIVE LexFrom(_, _, _)
LexFrom(text, p, toks) ==
    IF p > Len(text) THEN [ok |-> TRUE, tokens |-> toks, error |-> NoError]
    ELSE LET mo == MatchAt(text, p)
             value == SubSeq(text, p, p + mo.len - 1)
         IN IF mo.kind = "NOMATCH" THEN LexFrom(text, p + 1, toks)
            ELSE IF mo.kind = "MISMATCH"
              THEN [ok |-> FALSE, tokens |-> <<>>, error |-> RuntimeError(value)]
            ELSE IF mo.kind = "SKIP" THEN LexFrom(text, p + mo.len, toks)
            ELSE LexFrom(text, p + mo.len, Append(toks, Token(mo.kind, value)))

\* lex with a token list that outlives the call: the second call of compile
\* appends to the tokens of the first
lex_accumulating(text) ==
    LET once == LexFrom(text, 1, <<>>)
    IN IF run = 2 /\ once.ok THEN LexFrom(text, 1, once.tokens) ELSE once

lex(text) == LexFrom(text, 1, <<>>)

-----------------------------------------------------------------------------
(* Input sets.  Source texts are concatenations of pieces (whole lexemes,  *)
(* clauses written with and without separators, a misspelt colour, a       *)
(* newline and characters outside the vocabulary).  Token lists are every  *)
(* list of at most MaxLen lexer tokens, and every program of at most       *)
(* MaxFigures clauses with at most one token deleted, inserted or swapped  *)
(* with its neighbour; each of them is what lex returns for its tokens     *)
(* written with spaces in between.                                         *)

RECURSIVE Concat(_)
Concat(ss) == IF ss = <<>> THEN <<>> ELSE Head(ss) \o Concat(Tail(ss))

RECURSIVE SeqsOfLen(_, _)
SeqsOfLen(S, n) ==
    IF n = 0 THEN {<<>>}
    ELSE {Append(s, x) : s \in SeqsOfLen(S, n - 1), x \in S}

SeqsUpTo(S, n) == UNION {SeqsOfLen(S, k) : k \in 0..n}

Pieces ==
    { START, END,
      addCircle \o <<"(", "3">> \o RED \o <<")">>,
      addHeart \o <<"(", "1", " ", "\t">> \o BLUE \o <<")">>,
      <<"R", "E">>, <<"\n">>, <<"#">>, <<"6">>, <<"1", "2">> }

Sources == {Concat(ps) : ps \in SeqsUpTo(Pieces, MaxPieces)}

Vocabulary ==
    { Token("KEYWORDS", START), Token("KEYWORDS", END),
      Token("FIGURE", addCircle), Token("SPECIALCHAR", LPAREN),
      Token("SIZE", <<"3">>), Token("COLOR", RED),
      Token("SPECIALCHAR", RPAREN) }

Clauses ==
    { <<Token("FIGURE", addCircle), Token("SPECIALCHAR", LPAREN),
        Token("SIZE", <<"3">>), Token("COLOR", RED),
        Token("SPECIALCHAR", RPAREN)>>,
      <<Token("FIGURE", addSquare), Token("SPECIALCHAR", LPAREN),
        Token("SIZE", <<"1">>), Token("COLOR", BLUE),
        Token("SPECIALCHAR", RPAREN)>> }

Programs ==
    { <<Token("KEYWORDS", START)>> \o Concat(cs) \o <<Token("KEYWORDS", END)>> :
        cs \in SeqsUpTo(Clauses, MaxFigures) }

Edits(p) ==
    {p}
    \cup {SubSeq(p, 1, k - 1) \o SubSeq(p, k + 1, Len(p)) : k \in 1..Len(p)}
    \cup {SubSeq(p, 1, k) \o <<t>> \o SubSeq(p, k + 1, Len(p)) :
            k \in 0..Len(p), t \in Vocabulary}
    \cup {SubSeq(p, 1, k - 1) \o <<p[k + 1], p[k]>> \o SubSeq(p, k + 2, Len(p)) :
            k \in 1..(Len(p) - 1)}

TokenSeqs == SeqsUpTo(Vocabulary, MaxLen) \cup UNION {Edits(p) : p \in Programs}

-----------------------------------------------------------------------------
(* Construction of the two analyzers.                                      *)

\* advance that stays on the last token when the list is exhausted
advance_clamped(toks, p) ==
    [pos |-> p + 1,
     current_token |-> IF p + 1 < Len(toks) THEN toks[p + 2]
                       ELSE IF toks = <<>> THEN None ELSE toks[Len(toks)]]

\* SintacticAnalyzer.advance from cursor p (a Python index, from 0)
advance(toks, p) ==
    [pos |-> p + 1,
     current_token |-> IF p + 1 < Len(toks) THEN toks[p + 2] ELSE None]

\* SintacticAnalyzer.__init__: pos = -1, then advance()
NewSintacticAnalyzer(toks) ==
    [tokens |-> toks, pos |-> advance(toks, -1).pos,
     current_token |-> advance(toks, -1).current_token,
     rule |-> "start"]

\* SemanticAnalyzer.__init__
NewSemanticAnalyzer(toks) == [tokens |-> toks, i |-> 0, figures |-> <<>>]

NoSintacticAnalyzer ==
    /\ sin_tokens = <<>>
    /\ pos = -1
    /\ current_token = None
    /\ rule = "idle"

NoSemanticAnalyzer ==
    /\ sem_tokens = <<>>
    /\ i = 0
    /\ figures = <<>>

\* Compiler.compile(code) is called; nothing has run yet
InitCompile ==
    /\ driver = "compile"
    /\ code \in Sources
    /\ run = 1
    /\ first = NoOutcome
    /\ stage = "lex"
    /\ tokens_ = <<>>
    /\ error = NoError
    /\ NoSintacticAnalyzer
    /\ NoSemanticAnalyzer
    /\ exported = NotExported
    /\ returned = <<>>

\* SintacticAnalyzer(tokens) and SemanticAnalyzer(tokens) used directly on a
\* token list: the validator is constructed and parse() is about to run
InitComponents ==
    /\ driver = "components"
    /\ code = <<>>
    /\ run = 1
    /\ first = NoOutcome
    /\ stage = "parse"
    /\ tokens_ \in TokenSeqs
    /\ error = NoError
    /\ sin_tokens = tokens_
    /\ pos = NewSintacticAnalyzer(tokens_).pos
    /\ current_token = NewSintacticAnalyzer(tokens_).current_token
    /\ rule = NewSintacticAnalyzer(tokens_).rule
    /\ NoSemanticAnalyzer
    /\ exported = NotExported
    /\ returned = <<>>

-----------------------------------------------------------------------------
(* Compiler.compile, first statement: tokens_ = LexicalAnalyzer.lex(code). *)
(* A RuntimeError leaves compile; otherwise the validator is constructed.  *)

Tokenize ==
    /\ stage = "lex"
    /\ LET r == lex(code)
       IN IF r.ok
            THEN /\ tokens_' = r.tokens
                 /\ error' = NoError
                 /\ stage' = "parse"
                 /\ sin_tokens' = NewSintacticAnalyzer(r.tokens).tokens
                 /\ pos' = NewSintacticAnalyzer(r.tokens).pos
                 /\ current_token' = NewSintacticAnalyzer(r.tokens).current_token
                 /\ rule' = NewSintacticAnalyzer(r.tokens).rule
            ELSE /\ error' = r.error
                 /\ stage' = "failed"
                 /\ UNCHANGED <<tokens_, sinvars>>
    /\ UNCHANGED <<driver, code, run, first, semvars, exported, returned>>

-----------------------------------------------------------------------------
(* SintacticAnalyzer.parse: start(), figure_sequence(), end().  `rule` is  *)
(* the rule the validator is in.                                           *)

Is(tok, type, value) == tok # None /\ tok.type_ = type /\ tok.value = value

IsType(tok, type) == tok # None /\ tok.type_ = type

\* ParseEnds with the exception swallowed: the reducer runs whatever parse did
ParseEnds_goesOn(err, r) ==
    /\ error' = err
    /\ rule' = r
    /\ stage' = "analyze"
    /\ sem_tokens' = NewSemanticAnalyzer(tokens_).tokens
    /\ i' = NewSemanticAnalyzer(tokens_).i
    /\ figures' = NewSemanticAnalyzer(tokens_).figures

\* parse() is left, by return (err = NoError) or by the exception err.
\* compile goes on to the reducer only after a return; used directly, the
\* reducer is constructed on the same tokens whatever the validator said.
ParseEnds(err, r) ==
    /\ error' = err
    /\ rule' = r
    /\ IF driver = "compile" /\ err # NoError
         THEN /\ stage' = "failed"
              /\ UNCHANGED semvars
         ELSE /\ stage' = "analyze"
              /\ sem_tokens' = NewSemanticAnalyzer(tokens_).tokens
              /\ i' = NewSemanticAnalyzer(tokens_).i
              /\ figures' = NewSemanticAnalyzer(tokens_).figures

\* a rule matched its token: advance() and go on with rule r
Matched(r) ==
    /\ pos' = advance(sin_tokens, pos).pos
    /\ current_token' = advance(sin_tokens, pos).current_token
    /\ rule' = r
    /\ UNCHANGED <<stage, error, semvars>>

\* SintacticAnalyzer.error(expected)
Raise(expected) ==
    /\ ParseEnds(SyntaxError(expected, current_token), "raised")
    /\ UNCHANGED <<pos, current_token>>

\* start() reads current_token.type_ without testing for None
StartRule ==
    /\ stage = "parse" /\ rule = "start"
    /\ IF current_token = None
         THEN ParseEnds(AttributeError, "raised") /\ UNCHANGED <<pos, current_token>>
       ELSE IF current_token.type_ = "KEYWORDS" /\ current_token.value = START
         THEN Matched("figure_sequence")
       ELSE Raise("START")
    /\ UNCHANGED <<driver, code, run, first, tokens_, sin_tokens, exported, returned>>

\* figure_sequence(): the while test
FigureSequence ==
    /\ stage = "parse" /\ rule = "figure_sequence"
    /\ rule' = IF IsType(current_token, "FIGURE") THEN "figure" ELSE "end"
    /\ UNCHANGED <<driver, code, run, first, stage, tokens_, error,
                   sin_tokens, pos, current_token, semvars, exported, returned>>

\* figure(): the FIGURE token
Figure ==
    /\ stage = "parse" /\ rule = "figure"
    /\ IF IsType(current_token, "FIGURE")
         THEN Matched("figure_lparen")
         ELSE Raise("FIGURE")
    /\ UNCHANGED <<driver, code, run, first, tokens_, sin_tokens, exported, returned>>

\* figure(): "(" following the figure
FigureLParen ==
    /\ stage = "parse" /\ rule = "figure_lparen"
    /\ IF Is(current_token, "SPECIALCHAR", LPAREN)
         THEN Matched("figure_size")
         ELSE Raise("( after FIGURE")
    /\ UNCHANGED <<driver, code, run, first, tokens_, sin_tokens, exported, returned>>

\* FigureSize that takes a COLOR token where the SIZE belongs
FigureSize_orColor ==
    /\ stage = "parse" /\ rule = "figure_size"
    /\ IF IsType(current_token, "SIZE") \/ IsType(current_token, "COLOR")
         THEN Matched("figure_color")
         ELSE Raise("SIZE")
    /\ UNCHANGED <<driver, code, run, first, tokens_, sin_tokens, exported, returned>>

\* figure(): the SIZE token
FigureSize ==
    /\ stage = "parse" /\ rule = "figure_size"
    /\ IF IsType(current_token, "SIZE")
         THEN Matched("figure_color")
         ELSE Raise("SIZE")
    /\ UNCHANGED <<driver, code, run, first, tokens_, sin_tokens, exported, returned>>

\* FigureColor that lets the COLOR token be left out
FigureColor_optional ==
    /\ stage = "parse" /\ rule = "figure_color"
    /\ IF IsType(current_token, "COLOR")
         THEN Matched("figure_rparen")
         ELSE /\ rule' = "figure_rparen"
              /\ UNCHANGED <<stage, error, pos, current_token, semvars>>
    /\ UNCHANGED <<driver, code, run, first, tokens_, sin_tokens, exported, returned>>

\* figure(): the COLOR token
FigureColor ==
    /\ stage = "parse" /\ rule = "figure_color"
    /\ IF IsType(current_token, "COLOR")
         THEN Matched("figure_rparen")
         ELSE Raise("COLOR")
    /\ UNCHANGED <<driver, code, run, first, tokens_, sin_tokens, exported, returned>>

\* figure(): ")" following the size and color; back to the while test
FigureRParen ==
    /\ stage = "parse" /\ rule = "figure_rparen"
    /\ IF Is(current_token, "SPECIALCHAR", RPAREN)
         THEN Matched("figure_sequence")
         ELSE Raise(")")
    /\ UNCHANGED <<driver, code, run, first, tokens_, sin_tokens, exported, returned>>

\* EndRule without the test for tokens left after END
EndRule_anyTail ==
    /\ stage = "parse" /\ rule = "end"
    /\ IF Is(current_token, "KEYWORDS", END)
         THEN /\ pos' = advance(sin_tokens, pos).pos
              /\ current_token' = advance(sin_tokens, pos).current_token
              /\ ParseEnds(NoError, "accepted")
         ELSE Raise("END")
    /\ UNCHANGED <<driver, code, run, first, tokens_, sin_tokens, exported, returned>>

\* end(): END, advance(), and nothing may be left
EndRule ==
    /\ stage = "parse" /\ rule = "end"
    /\ IF Is(current_token, "KEYWORDS", END)
         THEN /\ pos' = advance(sin_tokens, pos).pos
              /\ current_token' = advance(sin_tokens, pos).current_token
              /\ IF current_token' # None
                   THEN ParseEnds(SyntaxError("No extra tokens expected after END",
                                              current_token'), "raised")
                   ELSE ParseEnds(NoError, "accepted")
         ELSE Raise("END")
    /\ UNCHANGED <<driver, code, run, first, tokens_, sin_tokens, exported, returned>>

Parse ==
    \/ StartRule
    \/ FigureSequence
    \/ Figure
    \/ FigureLParen
    \/ FigureSize
    \/ FigureColor
    \/ FigureRParen
    \/ EndRule

-----------------------------------------------------------------------------
(* SemanticAnalyzer.analyze: one pass of the while loop per token.         *)

Last(figs) == figs[Len(figs)]

\* ReduceToken that opens a nameless triple for a SIZE or COLOR token that
\* no figure precedes
ReduceToken_orphan(figs, token) ==
    IF token.type_ = "FIGURE"
      THEN Append(figs, <<token.value, Unset, Unset>>)
    ELSE IF token.type_ = "SIZE"
      THEN IF figs = <<>> THEN <<<<Unset, token.value, Unset>>>>
           ELSE IF Last(figs)[2] = Unset
             THEN [figs EXCEPT ![Len(figs)] = <<Last(figs)[1], token.value, Unset>>]
             ELSE figs
    ELSE IF token.type_ = "COLOR"
      THEN IF figs = <<>> THEN <<<<Unset, Unset, token.value>>>>
           ELSE IF Last(figs)[3] = Unset
             THEN [figs EXCEPT ![Len(figs)] = <<Last(figs)[1], Last(figs)[2], token.value>>]
             ELSE figs
    ELSE figs

\* ReduceToken with a new figure put in front of the list instead of at its end
ReduceToken_prepend(figs, token) ==
    IF token.type_ = "FIGURE"
      THEN <<<<token.value, Unset, Unset>>>> \o figs
    ELSE IF token.type_ = "SIZE"
      THEN IF figs # <<>> /\ Last(figs)[2] = Unset
             THEN [figs EXCEPT ![Len(figs)] = <<Last(figs)[1], token.value, Unset>>]
             ELSE figs
    ELSE IF token.type_ = "COLOR"
      THEN IF figs # <<>> /\ Last(figs)[3] = Unset
             THEN [figs EXCEPT ![Len(figs)] = <<Last(figs)[1], Last(figs)[2], token.value>>]
             ELSE figs
    ELSE figs

\* the body of the loop for one token
ReduceToken(figs, token) ==
    IF token.type_ = "FIGURE"
      THEN Append(figs, <<token.value, Unset, Unset>>)
    ELSE IF token.type_ = "SIZE"
      THEN IF figs # <<>> /\ Last(figs)[2] = Unset
             THEN [figs EXCEPT ![Len(figs)] = <<Last(figs)[1], token.value, Unset>>]
             ELSE figs
    ELSE IF token.type_ = "COLOR"
      THEN IF figs # <<>> /\ Last(figs)[3] = Unset
             THEN [figs EXCEPT ![Len(figs)] = <<Last(figs)[1], Last(figs)[2], token.value>>]
             ELSE figs
    ELSE figs

AnalyzeStep ==
    /\ stage = "analyze"
    /\ i < Len(sem_tokens)
    /\ figures' = ReduceToken(figures, sem_tokens[i + 1])
    /\ i' = i + 1
    /\ UNCHANGED <<driver, code, run, first, stage, tokens_, error,
                   sinvars, sem_tokens, exported, returned>>

\* the loop is over: return self.figures; `returned` keeps what each call of
\* analyze handed back, as it was when the call returned
AnalyzeReturn ==
    /\ stage = "analyze"
    /\ ~(i < Len(sem_tokens))
    /\ stage' = IF driver = "compile" THEN "export" ELSE "done"
    /\ returned' = Append(returned, figures)
    /\ UNCHANGED <<driver, code, run, first, tokens_, error,
                   sinvars, semvars, exported>>

-----------------------------------------------------------------------------
(* Compiler.export_pattern(figures): generate_figures converts every size  *)
(* with int(), which raises on None; the patterns then go to the PDF.      *)

Export ==
    /\ stage = "export"
    /\ IF \E k \in 1..Len(figures) : figures[k][2] = Unset
         THEN /\ error' = TypeError
              /\ stage' = "failed"
              /\ UNCHANGED exported
         ELSE /\ exported' = [called |-> TRUE, figures |-> figures]
              /\ stage' = "done"
              /\ UNCHANGED error
    /\ UNCHANGED <<driver, code, run, first, tokens_, sinvars, semvars, returned>>

\* compile is called again on the same source text: every local of the
\* first call is gone, and what the first call produced is remembered
Recompile ==
    /\ driver = "compile"
    /\ run = 1
    /\ stage \in {"done", "failed"}
    /\ first' = [ended |-> TRUE, error |-> error, exported |-> exported]
    /\ run' = 2
    /\ stage' = "lex"
    /\ tokens_' = <<>>
    /\ error' = NoError
    /\ sin_tokens' = <<>>
    /\ pos' = -1
    /\ current_token' = None
    /\ rule' = "idle"
    /\ sem_tokens' = <<>>
    /\ i' = 0
    /\ figures' = <<>>
    /\ exported' = NotExported
    /\ returned' = <<>>
    /\ UNCHANGED <<driver, code>>

-----------------------------------------------------------------------------
(* Spec: Compiler.compile on a source text, called twice.                  *)
(* SpecComponents: the validator and then the reducer, each constructed on *)
(* the same token list.                                                    *)

Next ==
    \/ Tokenize
    \/ Parse
    \/ AnalyzeStep
    \/ AnalyzeReturn
    \/ Export
    \/ Recompile

Spec == InitCompile /\ [][Next]_vars

NextComponents ==
    \/ Parse
    \/ AnalyzeStep
    \/ AnalyzeReturn

\* parse and analyze are synchronous calls: each runs on to its end
SpecComponentsFair == InitComponents /\ [][NextComponents]_vars /\ WF_vars(NextComponents)

\* analyze() is called again on the same SemanticAnalyzer: token_count and i
\* are set anew, self.figures is the list the calls before left
AnalyzeAgain ==
    /\ driver = "components"
    /\ stage = "done"
    /\ Len(returned) < MaxCalls
    /\ stage' = "analyze"
    /\ i' = 0
    /\ UNCHANGED <<driver, code, run, first, tokens_, error,
                   sinvars, sem_tokens, figures, exported, returned>>

NextCalls ==
    \/ Parse
    \/ AnalyzeStep
    \/ AnalyzeReturn
    \/ AnalyzeAgain

\* SpecCalls: as SpecComponents, with analyze called up to MaxCalls times on
\* the one reducer
SpecCalls == InitComponents /\ [][NextCalls]_vars

SpecComponents == InitComponents /\ [][NextComponents]_vars

-----------------------------------------------------------------------------
(* The grammar, stated on a whole token list.                              *)

IsClauseAt(ts, k) ==
    /\ ts[k].type_ = "FIGURE"
    /\ ts[k + 1] = Token("SPECIALCHAR", LPAREN)
    /\ ts[k + 2].type_ = "SIZE"
    /\ ts[k + 3].type_ = "COLOR"
    /\ ts[k + 4] = Token("SPECIALCHAR", RPAREN)

\* KEYWORD START, zero or more clauses FIGURE ( SIZE COLOR ), KEYWORD END
IsProgram(ts) ==
    /\ Len(ts) >= 2
    /\ (Len(ts) - 2) % 5 = 0
    /\ ts[1] = Token("KEYWORDS", START)
    /\ ts[Len(ts)] = Token("KEYWORDS", END)
    /\ \A n \in 0..(((Len(ts) - 2) \div 5) - 1) : IsClauseAt(ts, 2 + 5 * n)

IsFigureToken(t) == t.type_ = "FIGURE"

FigureTokens(ts) == SelectSeq(ts, IsFigureToken)

ParseReturned == rule = "accepted"

ParseRaised == rule = "raised"

ParseOver == ParseReturned \/ ParseRaised

-----------------------------------------------------------------------------
C1_WitnessEmpty ==
    /\ driver = "components"
    /\ stage = "done"
    /\ tokens_ = <<Token("KEYWORDS", START), Token("KEYWORDS", END)>>
    /\ figures = <<>>

-----------------------------------------------------------------------------
(* C2: parse returns only on token lists that are exactly a program, fully *)
(* consumed; on every other list it raises, and on a list that is a        *)
(* program followed by one or more tokens it raises the error 'No extra    *)
(* tokens expected after END', found being the first token after END.      *)
HasProgramPrefix(ts) == \E k \in 2..(Len(ts) - 1) : IsProgram(SubSeq(ts, 1, k))

ProgramPrefixLen(ts) == CHOOSE k \in 2..(Len(ts) - 1) : IsProgram(SubSeq(ts, 1, k))

C2_OnlyProgramsAccepted ==
    driver = "components" =>
        /\ ParseReturned => IsProgram(sin_tokens) /\ pos = Len(sin_tokens)
        /\ (ParseOver /\ ~IsProgram(sin_tokens)) => ParseRaised /\ error # NoError
        /\ (ParseOver /\ HasProgramPrefix(sin_tokens)) =>
             /\ ParseRaised
             /\ error = SyntaxError("No extra tokens expected after END",
                                    sin_tokens[ProgramPrefixLen(sin_tokens) + 1])

C2_Witness ==
    /\ driver = "components"
    /\ ParseRaised
    /\ HasProgramPrefix(sin_tokens)
    /\ Len(sin_tokens) = 8
    /\ error.expected = "No extra tokens expected after END"
    /\ error.found = sin_tokens[8]

-----------------------------------------------------------------------------
(* C3: on every token list whose first token is not KEYWORD START, the     *)
(* empty list included, parse raises a SyntaxError that expected START.    *)
MissingStart(ts) == ts = <<>> \/ ts[1] # Token("KEYWORDS", START)

C3_MissingStartIsSyntaxError ==
    (driver = "components" /\ ParseOver /\ MissingStart(sin_tokens)) =>
        /\ ParseRaised
        /\ error.kind = "SyntaxError"
        /\ error.expected = "START"

-----------------------------------------------------------------------------
(* Characters of a source text.                                            *)

Chars(w) == {w[k] : k \in 1..Len(w)}

\* the characters of figure names, colour names, START/END, digits 1-5
\* and parentheses
LexemeChars ==
    UNION {Chars(FigureAlternatives[k]) : k \in 1..Len(FigureAlternatives)}
    \cup UNION {Chars(ColorAlternatives[k]) : k \in 1..Len(ColorAlternatives)}
    \cup UNION {Chars(KeywordAlternatives[k]) : k \in 1..Len(KeywordAlternatives)}
    \cup SizeChars \cup SpecialChars

PositionsOutside(text, S) == {p \in 1..Len(text) : text[p] \notin S}

Leftmost(ps) == CHOOSE p \in ps : \A q \in ps : p <= q

LexFailed == stage = "failed" /\ error.kind = "RuntimeError"

\* tokenize failed, no token list came back, no analyzer was constructed
OnlyLexRan ==
    /\ LexFailed
    /\ tokens_ = <<>>
    /\ rule = "idle" /\ sin_tokens = <<>> /\ pos = -1
    /\ sem_tokens = <<>> /\ i = 0 /\ figures = <<>>
    /\ ~exported.called

-----------------------------------------------------------------------------
-----------------------------------------------------------------------------
(* Digits in a source text.                                                *)

Blank(text, S) == [p \in 1..Len(text) |-> IF text[p] \in S THEN " " ELSE text[p]]

CountIn(text, S) == Cardinality({p \in 1..Len(text) : text[p] \in S})

IsSizeToken(t) == t.type_ = "SIZE"

HasTwelve(text) == \E p \in 1..(Len(text) - 1) : text[p] = "1" /\ text[p + 1] = "2"

(* C6 as claimed: a source containing the digit 6 or the digit string 12   *)
(* (and that tokenizes when its digits are blanked out) does not fail, and *)
(* every digit becomes a SIZE token of its own.                            *)
C6_Original ==
    (/\ driver = "compile" /\ stage # "lex"
     /\ "6" \in Chars(code) \/ HasTwelve(code)
     /\ lex(Blank(code, SizeChars \cup {"6"})).ok) =>
        /\ ~LexFailed
        /\ Len(SelectSeq(tokens_, IsSizeToken)) = CountIn(code, SizeChars \cup {"6"})

(* C6 as amended: the digits 1-5 never make tokenize fail and each becomes *)
(* a one-character SIZE token of its own, so 12 gives SIZE 1, SIZE 2; a    *)
(* source containing the digit 6 fails with a lexical error.               *)
C6_DigitsSplit ==
    (driver = "compile" /\ stage # "lex") =>
        /\ lex(Blank(code, SizeChars)).ok =>
             /\ ~LexFailed
             /\ Len(SelectSeq(tokens_, IsSizeToken)) = CountIn(code, SizeChars)
             /\ \A k \in 1..Len(tokens_) :
                    tokens_[k].type_ = "SIZE" =>
                        Len(tokens_[k].value) = 1 /\ tokens_[k].value[1] \in SizeChars
        /\ "6" \in Chars(code) => OnlyLexRan

C6_Witness ==
    /\ driver = "compile"
    /\ stage # "lex"
    /\ HasTwelve(code)
    /\ Len(tokens_) = 3
    /\ tokens_[1] = Token("KEYWORDS", START)
    /\ tokens_[2] = Token("SIZE", <<"1">>)
    /\ tokens_[3] = Token("SIZE", <<"2">>)

-----------------------------------------------------------------------------
(* C5: in the reducer, on every token list, a size or color field that has *)
(* been set is never changed by a later step of analyze.                   *)
FieldsKept(before, after) ==
    /\ Len(after) >= Len(before)
    /\ \A k \in 1..Len(before) :
          /\ before[k][2] # Unset => after[k][2] = before[k][2]
          /\ before[k][3] # Unset => after[k][3] = before[k][3]

C5_SetFieldsNeverChange ==
    [][(driver = "components" /\ stage = "analyze") => FieldsKept(figures, figures')]_vars

-----------------------------------------------------------------------------
(* C7: in one call of compile the stages run in the order tokenize,        *)
(* validate, reduce, export.  The validator exists only once lex returned  *)
(* a token list, and works on that list; the reducer exists only once      *)
(* parse returned, and works on the same list; export_pattern is called    *)
(* only once analyze went through every token, with its figures; after a   *)
(* failure of tokenize or validate no later stage has run and no figures   *)
(* exist or are exported.                                                  *)
ValidatorStarted == rule # "idle"

ReducerStarted == stage \in {"analyze", "export", "done"} \/ sem_tokens # <<>> \/ i # 0

C7_StageOrder ==
    driver = "compile" =>
        /\ stage = "lex" => ~ValidatorStarted /\ ~ReducerStarted /\ ~exported.called
        /\ ValidatorStarted =>
             /\ lex(code).ok
             /\ tokens_ = lex(code).tokens
             /\ sin_tokens = tokens_
        /\ ReducerStarted =>
             /\ ParseReturned
             /\ error = NoError
             /\ sem_tokens = sin_tokens
        /\ stage \in {"export", "done"} => i = Len(sem_tokens)
        /\ exported.called =>
             /\ stage = "done"
             /\ exported.figures = figures
        /\ stage = "done" => exported.called
        /\ stage = "failed" =>
             /\ error.kind \in {"RuntimeError", "SyntaxError", "AttributeError"}
             /\ error.kind = "RuntimeError" => ~ValidatorStarted
             /\ error.kind \in {"SyntaxError", "AttributeError"} => ParseRaised
             /\ ~ReducerStarted
             /\ figures = <<>>
             /\ ~exported.called

C7_Witness ==
    /\ driver = "compile"
    /\ run = 1
    /\ stage = "done"
    /\ exported.called
    /\ Len(exported.figures) = 2
    /\ exported.figures[1] = <<addHeart, <<"1">>, BLUE>>
    /\ exported.figures[2] = <<addCircle, <<"3">>, RED>>

-----------------------------------------------------------------------------
(* C8: compile called twice on the same source text ends the same way both *)
(* times: the same error, or the same figure triples handed to the export. *)
Outcome == [ended |-> TRUE, error |-> error, exported |-> exported]

C8_WitnessError ==
    /\ driver = "compile"
    /\ run = 2
    /\ stage = "failed"
    /\ first = Outcome
    /\ error.kind = "SyntaxError"

-----------------------------------------------------------------------------
(* The grammar as the symbol it requires at each position of a token list. *)

NextSlot(slot, t) ==
    IF slot = "program"
      THEN IF t = Token("KEYWORDS", START) THEN "sequence" ELSE "dead"
    ELSE IF slot = "sequence"
      THEN IF t.type_ = "FIGURE" THEN "lparen"
           ELSE IF t = Token("KEYWORDS", END) THEN "eof" ELSE "dead"
    ELSE IF slot = "lparen"
      THEN IF t = Token("SPECIALCHAR", LPAREN) THEN "size" ELSE "dead"
    ELSE IF slot = "size"
      THEN IF t.type_ = "SIZE" THEN "color" ELSE "dead"
    ELSE IF slot = "color"
      THEN IF t.type_ = "COLOR" THEN "rparen" ELSE "dead"
    ELSE IF slot = "rparen"
      THEN IF t = Token("SPECIALCHAR", RPAREN) THEN "sequence" ELSE "dead"
    ELSE "dead"

\* the slot reached after the first k tokens of ts
RECURSIVE SlotAfter(_, _)
SlotAfter(ts, k) ==
    IF k = 0 THEN "program" ELSE NextSlot(SlotAfter(ts, k - 1), ts[k])

\* ts[1..k] is a prefix of some program
IsProgramPrefix(ts, k) == SlotAfter(ts, k) # "dead"

\* how many tokens of ts form a prefix of a program: the Python index of
\* the first token that does not, len(ts) if there is none
ViableLen(ts) ==
    LET ks == {k \in 0..Len(ts) : IsProgramPrefix(ts, k)}
    IN CHOOSE k \in ks : \A j \in ks : j <= k

ExpectedAt(slot) ==
    IF slot = "program" THEN "START"
    ELSE IF slot = "sequence" THEN "END"
    ELSE IF slot = "lparen" THEN "( after FIGURE"
    ELSE IF slot = "size" THEN "SIZE"
    ELSE IF slot = "color" THEN "COLOR"
    ELSE IF slot = "rparen" THEN ")"
    ELSE "No extra tokens expected after END"

(* C9: on every token list that begins with KEYWORD START and is not a     *)
(* program, parse raises a SyntaxError at the first position where the     *)
(* list stops being a prefix of a program: found is the token there, or    *)
(* None when the whole list is a proper prefix of a program; expected      *)
(* names what the grammar requires there; the cursor never went past it.   *)
C9_FirstErrorPosition ==
    (/\ driver = "components" /\ ParseOver
     /\ ~MissingStart(sin_tokens) /\ ~IsProgram(sin_tokens)) =>
        LET f == ViableLen(sin_tokens)
        IN /\ ParseRaised
           /\ pos = f
           /\ error = SyntaxError(ExpectedAt(SlotAfter(sin_tokens, f)),
                                  IF f < Len(sin_tokens) THEN sin_tokens[f + 1] ELSE None)

\* FIGURE ( COLOR SIZE ): the failure is at the COLOR token, SIZE expected
C9_Witness ==
    /\ driver = "components"
    /\ ParseRaised
    /\ Len(sin_tokens) >= 7
    /\ sin_tokens[4].type_ = "COLOR"
    /\ sin_tokens[5].type_ = "SIZE"
    /\ pos = 3
    /\ error = SyntaxError("SIZE", sin_tokens[4])

\* a proper prefix of a program: found is the end-of-input sentinel
C9_WitnessEndOfInput ==
    /\ driver = "components"
    /\ ParseRaised
    /\ pos = Len(sin_tokens)
    /\ Len(sin_tokens) >= 6
    /\ error.found = None
    /\ error.expected = "END"

-----------------------------------------------------------------------------
(* C10: on every token list parse returned on, analyze never takes an      *)
(* ignore branch (each SIZE and each COLOR token finds a last triple with  *)
(* that field unset), and the triples it returns have size and color set   *)
(* to the SIZE and COLOR tokens of the figure's own clause.                *)
C10_NoIgnoreOnAccepted ==
    (driver = "components" /\ ParseReturned) =>
        /\ (stage = "analyze" /\ i < Len(sem_tokens)) =>
             /\ sem_tokens[i + 1].type_ = "SIZE" =>
                    figures # <<>> /\ Last(figures)[2] = Unset
             /\ sem_tokens[i + 1].type_ = "COLOR" =>
                    figures # <<>> /\ Last(figures)[3] = Unset
        /\ stage = "done" =>
             /\ 5 * Len(figures) + 2 = Len(sem_tokens)
             /\ \A k \in 1..Len(figures) :
                    /\ figures[k][2] # Unset
                    /\ figures[k][3] # Unset
                    /\ figures[k] = << sem_tokens[5 * k - 3].value,
                                       sem_tokens[5 * k - 1].value,
                                       sem_tokens[5 * k].value >>

C10_Witness ==
    /\ driver = "components"
    /\ ParseReturned
    /\ stage = "done"
    /\ figures = << <<addCircle, <<"3">>, RED>>, <<addSquare, <<"1">>, BLUE>> >>

-----------------------------------------------------------------------------
(* C11: on every token list, accepted by the validator or not, analyze     *)
(* raises nothing, examines the tokens one by one in order, each once, and *)
(* ends having returned one triple per FIGURE token; a SIZE or COLOR token *)
(* that no FIGURE token precedes and every KEYWORDS or SPECIALCHAR token   *)
(* leaves the triples as they are.                                         *)
C11_StepIsTotal ==
    (stage = "analyze" /\ stage' = "analyze") =>
        /\ i' = i + 1
        /\ i' <= Len(sem_tokens)
        /\ sem_tokens' = sem_tokens
        /\ sem_tokens[i + 1].type_ \in {"KEYWORDS", "SPECIALCHAR"} => figures' = figures
        /\ (sem_tokens[i + 1].type_ \in {"SIZE", "COLOR"} /\ figures = <<>>) =>
               figures' = <<>>
        /\ Len(figures') = Len(figures)
                            + (IF sem_tokens[i + 1].type_ = "FIGURE" THEN 1 ELSE 0)

C11_NothingRaised ==
    stage = "analyze" =>
        /\ error' = error
        /\ stage' \in {"analyze", "done"}
        /\ stage' = "done" => i = Len(sem_tokens) /\ figures' = figures

C11_Returned ==
    (driver = "components" /\ stage = "done") =>
        /\ i = Len(sem_tokens)
        /\ sem_tokens = tokens_
        /\ Len(figures) = Len(FigureTokens(sem_tokens))
        /\ \A k \in 1..Len(figures) : figures[k][1] = FigureTokens(sem_tokens)[k].value

C11_ReducerTotal ==
    /\ []C11_Returned
    /\ [][C11_StepIsTotal /\ C11_NothingRaised]_vars
    /\ <>(stage = "done")

\* a list the validator rejected, starting with a SIZE and a COLOR token
\* that no figure precedes, reduced to the one figure that follows them
C11_Witness ==
    /\ driver = "components"
    /\ stage = "done"
    /\ ParseRaised
    /\ Len(sem_tokens) >= 4
    /\ sem_tokens[1].type_ = "SIZE"
    /\ sem_tokens[2].type_ = "COLOR"
    /\ sem_tokens[3].type_ = "FIGURE"
    /\ sem_tokens[4].type_ = "SPECIALCHAR"
    /\ figures = << <<sem_tokens[3].value, Unset, Unset>> >>

-----------------------------------------------------------------------------
(* C12: a token list returned by lex is the left-to-right segmentation of  *)
(* the source: every token's text is a lexeme of the vocabulary of its own *)
(* kind, and the token texts concatenated in order are the source text     *)
(* with its spaces, tabs and newlines removed.                             *)
Range(alts) == {alts[k] : k \in 1..Len(alts)}

KindVocabulary(type) ==
    IF type = "FIGURE" THEN Range(FigureAlternatives)
    ELSE IF type = "COLOR" THEN Range(ColorAlternatives)
    ELSE IF type = "KEYWORDS" THEN Range(KeywordAlternatives)
    ELSE IF type = "SIZE" THEN {<<c>> : c \in SizeChars}
    ELSE IF type = "SPECIALCHAR" THEN {<<c>> : c \in SpecialChars}
    ELSE {}

TokenTexts(ts) == Concat([k \in 1..Len(ts) |-> ts[k].value])

IsInk(c) == c \notin SkipChars \cup {"\n"}

LexReturned == driver = "compile" /\ stage # "lex" /\ ~LexFailed

C12_WitnessStartEnd ==
    /\ LexReturned
    /\ code = START \o END
    /\ tokens_ = <<Token("KEYWORDS", START), Token("KEYWORDS", END)>>

-----------------------------------------------------------------------------
(* C13: analyze called a second time on the same SemanticAnalyzer returns  *)
(* the same triples as its first call returned.                            *)
C13_AnalyzeRepeatable ==
    (driver = "components" /\ Len(returned) >= 2) => returned[2] = returned[1]

-----------------------------------------------------------------------------
(* C14: in every state of the validator, from its construction through     *)
(* parse, 0 <= pos <= len(tokens), current_token is tokens[pos] when       *)
(* pos < len(tokens) and None exactly when pos = len(tokens); pos never    *)
(* decreases and moves only by one advance at a time, never when None is   *)
(* current, so that the advances (pos + 1 of them, the constructor's       *)
(* included) are at most len(tokens) + 1; and parse ends.                  *)
C14_Cursor ==
    /\ 0 <= pos /\ pos <= Len(sin_tokens)
    /\ pos < Len(sin_tokens) => current_token = sin_tokens[pos + 1]
    /\ current_token = None <=> pos = Len(sin_tokens)
    /\ pos + 1 <= Len(sin_tokens) + 1
    /\ sin_tokens = tokens_

C14_Advance ==
    /\ sin_tokens' = sin_tokens
    /\ pos' >= pos
    /\ pos' # pos => pos' = pos + 1 /\ current_token # None /\ stage = "parse"
    /\ pos' = pos => current_token' = current_token
    /\ ParseOver => pos' = pos /\ rule' = rule

C14_CursorInvariant ==
    /\ []C14_Cursor
    /\ [][C14_Advance]_vars
    /\ <>ParseOver

\* a two-clause program accepted: the cursor is at the end, None is current
C14_Witness ==
    /\ driver = "components"
    /\ ParseReturned
    /\ Len(sin_tokens) = 12
    /\ pos = 12
    /\ current_token = None

\* the cursor in the middle of a clause
C14_WitnessMidway ==
    /\ driver = "components"
    /\ stage = "parse"
    /\ rule = "figure_color"
    /\ pos = 9
    /\ current_token = sin_tokens[10]

====
